---- MODULE Spec2Model ----
(***************************************************************************)
(* A model of ip2map.py: the run of main() from its command line to the    *)
(* data file, with the address validators, the resolver loop ip2loc, the   *)
(* merge of the extra input columns and the pivots that feed the map.      *)
(*                                                                         *)
(* Python strings are sequences of one-character strings, so that the      *)
(* substring tests, lower(), replace() and strip() of the source are       *)
(* computed and not assumed.                                               *)
(***************************************************************************)
EXTENDS Naturals, Integers, Sequences, FiniteSets, TLC

(***************************************************************************)
(* Strings                                                                 *)
(***************************************************************************)
Digit == {"0", "1", "2", "3", "4", "5", "6", "7", "8", "9"}
OctDigit == {"0", "1", "2", "3", "4", "5", "6", "7"}
HexDigit == Digit \cup {"a", "b", "c", "d", "e", "f", "A", "B", "C", "D", "E", "F"}
\* str.isspace() / \s of the re module (the vertical tab has no TLA+ escape)
Space == {" ", "\t", "\n", "\r", "\f"}

Upper == <<"A", "B", "C", "D", "E", "F", "G", "H", "I", "J", "K", "L", "M",
           "N", "O", "P", "Q", "R", "S", "T", "U", "V", "W", "X", "Y", "Z">>
Lower == <<"a", "b", "c", "d", "e", "f", "g", "h", "i", "j", "k", "l", "m",
           "n", "o", "p", "q", "r", "s", "t", "u", "v", "w", "x", "y", "z">>

\* str.lower(), one character
LowerChar(c) ==
    IF \E i \in 1..26 : Upper[i] = c
    THEN Lower[CHOOSE i \in 1..26 : Upper[i] = c]
    ELSE c

\* str.lower()
StrLower(s) == [i \in 1..Len(s) |-> LowerChar(s[i])]

\* Python's `a in b` on two strings: a is a contiguous part of b
SubstringOf(a, b) ==
    \E i \in 0..(Len(b) - Len(a)) : SubSeq(b, i + 1, i + Len(a)) = a

\* str.replace(c, ""): every occurrence of the character c removed
RemoveChar(s, c) == SelectSeq(s, LAMBDA ch : ch # c)

\* str.strip(): leading and trailing whitespace removed
Strip(s) ==
    LET keep == {i \in 1..Len(s) : s[i] \notin Space}
    IN IF keep = {} THEN <<>>
       ELSE LET lo == CHOOSE i \in keep : \A j \in keep : i <= j
                hi == CHOOSE i \in keep : \A j \in keep : i >= j
            IN SubSeq(s, lo, hi)

(***************************************************************************)
(* Regular expressions of the re module, as used by is_valid_ip.  A        *)
(* pattern is a tree; Ends(r, s, i) is the set of positions at which a     *)
(* match of r that starts at position i of s can end, which decides        *)
(* pattern.match exactly as backtracking does.                             *)
(***************************************************************************)
Cs(set) == [t |-> "cs", cs |-> set]
AnyChar == [t |-> "any"]
Sq(parts) == [t |-> "seq", ps |-> parts]
Alt(parts) == [t |-> "alt", ps |-> parts]
\* hi = -1: no upper limit
Rep(r, lo, hi) == [t |-> "rep", r |-> r, lo |-> lo, hi |-> hi]
Opt(r) == Rep(r, 0, 1)
Ahead(r) == [t |-> "ahead", r |-> r]
NotAhead(r) == [t |-> "notahead", r |-> r]
Behind(lit) == [t |-> "behind", lit |-> lit]
NotBehind(lit) == [t |-> "notbehind", lit |-> lit]
Lit(chars) == Sq([i \in 1..Len(chars) |-> Cs({chars[i]})])

RECURSIVE Ends(_, _, _)
RECURSIVE EndsSeq(_, _, _, _)
RECURSIVE EndsRep(_, _, _, _, _, _)

EndsSeq(ps, k, s, from) ==
    IF k > Len(ps) \/ from = {} THEN from
    ELSE EndsSeq(ps, k + 1, s, UNION {Ends(ps[k], s, i) : i \in from})

\* `done` repetitions have been matched, ending at the positions `from`;
\* `seen` are the positions already continued from (an unbounded repetition
\* of a pattern that can match the empty string must not loop)
EndsRep(r, s, from, done, seen, acc) ==
    LET here == IF done >= r.lo THEN acc \cup from ELSE acc
        fresh == IF r.hi = -1 /\ done >= r.lo THEN from \ seen ELSE from
    IN IF fresh = {} \/ (r.hi # -1 /\ done >= r.hi) THEN here
       ELSE EndsRep(r, s, UNION {Ends(r.r, s, i) : i \in fresh},
                    done + 1, seen \cup fresh, here)

Ends(r, s, i) ==
    CASE r.t = "cs" -> IF i <= Len(s) /\ s[i] \in r.cs THEN {i + 1} ELSE {}
      [] r.t = "any" -> IF i <= Len(s) THEN {i + 1} ELSE {}
      [] r.t = "seq" -> EndsSeq(r.ps, 1, s, {i})
      [] r.t = "alt" -> UNION {Ends(r.ps[k], s, i) : k \in 1..Len(r.ps)}
      [] r.t = "rep" -> EndsRep(r, s, {i}, 0, {}, {})
      [] r.t = "ahead" -> IF Ends(r.r, s, i) # {} THEN {i} ELSE {}
      [] r.t = "notahead" -> IF Ends(r.r, s, i) = {} THEN {i} ELSE {}
      [] r.t = "behind" ->
            IF i - Len(r.lit) >= 1 /\ SubSeq(s, i - Len(r.lit), i - 1) = r.lit
            THEN {i} ELSE {}
      [] r.t = "notbehind" ->
            IF i - Len(r.lit) >= 1 /\ SubSeq(s, i - Len(r.lit), i - 1) = r.lit
            THEN {} ELSE {i}

\* pattern.match(s) is not None for a pattern ^ r $: `$` matches at the end
\* of the string and just before a newline that ends it
MatchAll(r, s) ==
    \E j \in Ends(r, s, 1) :
        \/ j = Len(s) + 1
        \/ j = Len(s) /\ s[j] = "\n"

(***************************************************************************)
(* is_valid_ip                                                             *)
(***************************************************************************)
D == Cs(Digit)
H == Cs(HexDigit)
C(ch) == Cs({ch})
\* the `x` of a hexadecimal prefix under re.IGNORECASE
X == Cs({"x", "X"})

\* [3-9]\d?|2(?:5[0-5]|[0-4]?\d)?|1\d{0,2}
V4Decimal ==
    Alt(<< Sq(<<Cs({"3", "4", "5", "6", "7", "8", "9"}), Opt(D)>>),
           Sq(<<C("2"), Opt(Alt(<< Sq(<<C("5"), Cs({"0", "1", "2", "3", "4", "5"})>>),
                                   Sq(<<Opt(Cs({"0", "1", "2", "3", "4"})), D>>) >>))>>),
           Sq(<<C("1"), Rep(D, 0, 2)>>) >>)

\* 0x0*[0-9a-f]{1,2}
V4Hex == Sq(<<C("0"), X, Rep(C("0"), 0, -1), Rep(H, 1, 2)>>)

\* 0+[1-3]?[0-7]{0,2}
V4Octal == Sq(<<Rep(C("0"), 1, -1), Opt(Cs({"1", "2", "3"})), Rep(Cs(OctDigit), 0, 2)>>)

V4Part == Alt(<<V4Decimal, V4Hex, V4Octal>>)

\* a part, then 0-3 times a dot and a part
V4Dotted == Sq(<<V4Part, Rep(Sq(<<C("."), V4Part>>), 0, 3)>>)

\* 0x0*[0-9a-f]{1,8}
V4HexNotation == Sq(<<C("0"), X, Rep(C("0"), 0, -1), Rep(H, 1, 8)>>)

\* 0+[0-3]?[0-7]{0,10}
V4OctalNotation ==
    Sq(<<Rep(C("0"), 1, -1), Opt(Cs({"0", "1", "2", "3"})), Rep(Cs(OctDigit), 0, 10)>>)

\* decimal notation, 1-4294967295
V4DecimalNotation ==
    Alt(<< Sq(<<Lit(<<"4", "2", "9", "4", "9", "6", "7", "2", "9">>), Cs({"0", "1", "2", "3", "4", "5"})>>),
           Sq(<<Lit(<<"4", "2", "9", "4", "9", "6", "7", "2">>), Cs(Digit \ {"9"}), D>>),
           Sq(<<Lit(<<"4", "2", "9", "4", "9", "6", "7">>), Cs({"0", "1"}), D, D>>),
           Sq(<<Lit(<<"4", "2", "9", "4", "9", "6">>), Cs({"0", "1", "2", "3", "4", "5", "6"}), Rep(D, 3, 3)>>),
           Sq(<<Lit(<<"4", "2", "9", "4", "9">>), Cs({"0", "1", "2", "3", "4", "5"}), Rep(D, 4, 4)>>),
           Sq(<<Lit(<<"4", "2", "9", "4">>), Cs(Digit \ {"9"}), Rep(D, 5, 5)>>),
           Sq(<<Lit(<<"4", "2", "9">>), Cs({"0", "1", "2", "3"}), Rep(D, 6, 6)>>),
           Sq(<<Lit(<<"4", "2">>), Cs(Digit \ {"9"}), Rep(D, 7, 7)>>),
           Sq(<<C("4"), Cs({"0", "1"}), Rep(D, 8, 8)>>),
           Sq(<<Cs({"1", "2", "3"}), Rep(D, 0, 9)>>),
           Sq(<<Cs({"4", "5", "6", "7", "8", "9"}), Rep(D, 0, 8)>>) >>)

V4Pattern == Alt(<<V4Dotted, V4HexNotation, V4OctalNotation, V4DecimalNotation>>)

is_valid_ipv4(ip) == MatchAll(V4Pattern, ip)

\* [0-9a-f]{0,4}
V6Group == Rep(H, 0, 4)

\* (?:(?<=::)|(?<!::):)  a colon unless preceded by the wildcard
V6Colon == Alt(<<Behind(<<":", ":">>), Sq(<<NotBehind(<<":", ":">>), C(":")>>)>>)

\* (?:25[0-4]|2[0-4]\d|1\d\d|[1-9]?\d)
V6Octet ==
    Alt(<< Sq(<<C("2"), C("5"), Cs({"0", "1", "2", "3", "4"})>>),
           Sq(<<C("2"), Cs({"0", "1", "2", "3", "4"}), D>>),
           Sq(<<C("1"), D, D>>),
           Sq(<<Opt(Cs(Digit \ {"0"})), D>>) >>)

V6Pattern ==
    Sq(<< Rep(Cs(Space), 0, -1),
          \* (?!.*::.*::)
          NotAhead(Sq(<<Rep(AnyChar, 0, -1), C(":"), C(":"),
                        Rep(AnyChar, 0, -1), C(":"), C(":")>>)),
          \* (?:(?!:)|:(?=:))
          Alt(<<NotAhead(C(":")), Sq(<<C(":"), Ahead(C(":"))>>)>>),
          Rep(Sq(<<V6Group, V6Colon>>), 6, 6),
          Alt(<< Sq(<< V6Group, V6Colon, V6Group,
                       Alt(<< Behind(<<":", ":">>),
                              NotBehind(<<":">>),
                              Sq(<<Behind(<<":">>), NotBehind(<<":", ":">>), C(":")>>) >>) >>),
                 Sq(<<V6Octet, Rep(Sq(<<C("."), V6Octet>>), 3, 3)>>) >>),
          Rep(Cs(Space), 0, -1) >>)

is_valid_ipv6(ip) == MatchAll(V6Pattern, ip)

is_valid_ip(ip) == is_valid_ipv4(ip) \/ is_valid_ipv6(ip)

(***************************************************************************)
(* socket.inet_aton, the test main() applies to a single argument: the C   *)
(* library's parse of 1 to 4 numbers (decimal, 0 octal, 0x hexadecimal)    *)
(* separated by dots, the last one filling the remaining bytes.  A number  *)
(* is (hi, lo) with value hi * 65536 + lo, hi = 65536 standing for 2^32    *)
(* and more.                                                               *)
(***************************************************************************)
HexVal(c) ==
    CASE c \in Digit -> CHOOSE n \in 0..9 : <<"0", "1", "2", "3", "4", "5", "6", "7", "8", "9">>[n + 1] = c
      [] c \in {"a", "A"} -> 10
      [] c \in {"b", "B"} -> 11
      [] c \in {"c", "C"} -> 12
      [] c \in {"d", "D"} -> 13
      [] c \in {"e", "E"} -> 14
      [] c \in {"f", "F"} -> 15

RECURSIVE AtonDigits(_, _, _, _, _, _)
\* strtoul's digit loop in `base` from position i
AtonDigits(s, i, base, digits, hi, lo) ==
    IF i <= Len(s) /\ s[i] \in digits
    THEN LET l == lo * base + HexVal(s[i])
             h == hi * base + (l \div 65536)
         IN AtonDigits(s, i + 1, base, digits, IF h > 65536 THEN 65536 ELSE h, l % 65536)
    ELSE [next |-> i, hi |-> hi, lo |-> lo]

\* strtoul(cp, &endp, 0) at a digit
AtonNumber(s, i) ==
    IF s[i] = "0" /\ i + 2 <= Len(s) /\ s[i + 1] \in {"x", "X"} /\ s[i + 2] \in HexDigit
    THEN AtonDigits(s, i + 2, 16, HexDigit, 0, 0)
    ELSE IF s[i] = "0" THEN AtonDigits(s, i, 8, OctDigit, 0, 0)
    ELSE AtonDigits(s, i, 10, Digit, 0, 0)

RECURSIVE AtonParts(_, _, _)
\* `dots` numbers and their dots have been read; the next starts at i
AtonParts(s, i, dots) ==
    IF i > Len(s) \/ s[i] \notin Digit THEN FALSE
    ELSE LET n == AtonNumber(s, i)
         IN IF n.next <= Len(s) /\ s[n.next] = "."
            THEN dots < 3 /\ n.hi = 0 /\ n.lo <= 255 /\ AtonParts(s, n.next + 1, dots + 1)
            ELSE IF n.next <= Len(s) /\ s[n.next] \notin Space THEN FALSE
            ELSE CASE dots = 0 -> n.hi <= 65535
                   [] dots = 1 -> n.hi <= 255
                   [] dots = 2 -> n.hi = 0
                   [] dots = 3 -> n.hi = 0 /\ n.lo <= 255

\* socket.inet_aton(s) does not raise socket.error
inet_aton(s) == AtonParts(s, 1, 0)


(***************************************************************************)
(* The inputs of a run: the command-line argument, the file it may name,   *)
(* the label option and the answers of the lookup service.                 *)
(***************************************************************************)
\* the most rows an input file has
MaxRows == 3

\* the "N/A" the resolver writes for a field the service left out
NA == <<"N", "/", "A">>

\* the fixed header of main()
FixedHeader ==
    << <<"i", "p", "a", "d", "d", "r", "e", "s", "s">>,
       <<"l", "a", "t", "i", "t", "u", "d", "e">>,
       <<"l", "o", "n", "g", "i", "t", "u", "d", "e">>,
       <<"c", "o", "u", "n", "t", "r", "y", "_", "c", "o", "d", "e", "2">>,
       <<"c", "o", "u", "n", "t", "r", "y", "_", "c", "o", "d", "e", "3">>,
       <<"c", "o", "u", "n", "t", "r", "y">>,
       <<"r", "e", "g", "i", "o", "n", "_", "c", "o", "d", "e">>,
       <<"r", "e", "g", "i", "o", "n">>,
       <<"c", "i", "t", "y">>,
       <<"p", "o", "s", "t", "a", "l", "_", "c", "o", "d", "e">>,
       <<"a", "s", "n">>,
       <<"i", "s", "p">> >>

\* candidate addresses: what is_valid_ip and inet_aton say of each is the
\* source's own verdict, not assumed
Addr_8888 == <<"8", ".", "8", ".", "8", ".", "8">>
Addr_12 == <<"1", ".", "2">>
Addr_v6 == <<":", ":", "1">>
Addr_1_300 == <<"1", ".", "3", "0", "0">>
Addrs == {Addr_8888, Addr_12, Addr_v6, Addr_1_300}

\* a command-line argument that is a file name
FileArg == <<"i", "p", "s", ".", "c", "s", "v">>

\* headers of the input file, and the column the file keeps its addresses in
Col_ip == <<"i", "p">>
Col_IP == <<"I", "P">>
Col_label == <<"l", "a", "b", "e", "l">>
Col_desc == <<"d", "e", "s", "c">>
Col_src_ip == <<"s", "r", "c", "_", "i", "p">>
HeaderChoices ==
    { [names |-> <<Col_ip>>, at |-> 1],
      [names |-> <<Col_label, Col_IP, Col_desc>>, at |-> 2],
      [names |-> <<Col_src_ip, Col_ip>>, at |-> 1],
      [names |-> <<Col_label, Col_desc>>, at |-> 1] }

DigitChar(n) == <<"0", "1", "2", "3", "4", "5", "6", "7", "8", "9">>[n + 1]

\* the cell of row r, column c that is not an address: each one differs
Cell(r, c) == <<"r", DigitChar(r), "c", DigitChar(c)>>

\* the rows of a file whose address column holds addrs, in order
FileRows(h, addrs) ==
    [r \in 1..Len(addrs) |->
        [c \in 1..Len(h.names) |-> IF c = h.at THEN addrs[r] ELSE Cell(r, c)]]

AddrLists == UNION {[1..n -> Addrs] : n \in 0..MaxRows}

\* the files whose lines all have a cell for every header
FullFiles ==
    {[header |-> h.names, rows |-> FileRows(h, addrs)] : h \in HeaderChoices, addrs \in AddrLists}

\* the files whose last line is short: csv.reader gives a row of fewer cells
\* than the header has (none for a blank line), here the cells before the
\* address column or those up to it, the address of that line being 8.8.8.8
ShortFiles ==
    UNION {{[header |-> h.names,
             rows |-> [FileRows(h, addrs) EXCEPT ![Len(addrs)] = SubSeq(@, 1, n)]] :
               addrs \in {a \in AddrLists : a # <<>> /\ a[Len(a)] = Addr_8888},
               n \in {h.at - 1, h.at}} : h \in HeaderChoices}

InputFiles == FullFiles \cup ShortFiles

NoFile == [header |-> <<>>, rows |-> <<>>]

\* values of the -l option
Labels == {<<>>, <<"c", "o", "l", "1", "4">>}

\* a JSON value: a string, a number (its text) or null
JStr(chars) == [k |-> "str", v |-> chars]
JNum(chars) == [k |-> "num", v |-> chars]

\* answers of the lookup service: JSON objects with some of the fields
Doc_US ==
    [country_code |-> JStr(<<"U", "S">>), region_code |-> JStr(<<"C", "A">>), city |-> JStr(<<"S", "/", "F", " ">>),
     latitude |-> JNum(<<"3", "7", ".", "5">>), longitude |-> JNum(<<"-", "1", "2", "2", ".", "4">>)]
Doc_DE ==
    [country_code |-> JStr(<<"D", "E">>), region_code |-> JStr(<<"N", "/", "W">>), city |-> JStr(<<"B", "o", "n", "n">>),
     latitude |-> JNum(<<"5", "0", ".", "7">>), longitude |-> JNum(<<"7", ".", "1">>)]
\* an empty country code and no coordinates
Doc_blank == [country_code |-> JStr(<<>>), city |-> JStr(<<"X">>)]
\* coordinates and no country code
Doc_nocc == [latitude |-> JNum(<<"3", "7", ".", "5">>), longitude |-> JNum(<<"-", "1", "2", "2", ".", "4">>)]
Docs == {Doc_US, Doc_DE, Doc_blank, Doc_nocc}

\* IPv6 literals with a dotted IPv4 tail, as cells of the address column.
\* What comes before the tail: hexadecimal groups with at most one "::"
V6Prefixes ==
    { <<":", ":">>,
      <<":", ":", "f", "f", "f", "f", ":">>,
      <<"1", ":", ":">>,
      <<"1", ":", "2", ":", "3", ":", "4", ":", "5", ":", "6", ":">>,
      <<"1", ":", "2", ":", "3", ":", "4", ":", "5", ":", ":">>,
      <<"1", ":", ":", "2", ":">> }
\* the same with two "::"
V6PrefixesTwoWildcards ==
    { <<":", ":", "1", ":", ":">>,
      <<"1", ":", ":", "2", ":", ":">> }
\* decimal octets of 0..255 without leading zeros
V6FirstOctets == { <<"1">>, <<"2", "5", "5">> }
V6LastOctets ==
    { <<"0">>,
      <<"4">>,
      <<"9", "9">>,
      <<"1", "9", "9">>,
      <<"2", "4", "9">>,
      <<"2", "5", "0">>,
      <<"2", "5", "4">>,
      <<"2", "5", "5">> }
\* the tails a.2.3.d
V6Tails == {a \o <<".", "2", ".", "3", ".">> \o d : a \in V6FirstOctets, d \in V6LastOctets}
V6Literals == {p \o tl : p \in V6Prefixes \cup V6PrefixesTwoWildcards, tl \in V6Tails}

\* the files of one column `ip` and one row that holds such a literal
V6Files == {[header |-> <<Col_ip>>, rows |-> << <<a>> >>] : a \in V6Literals}


(***************************************************************************)
(* The functions of the program                                            *)
(***************************************************************************)
\* the permutations of a finite set, as sequences: the orders in which a
\* Python 2 dict may hand out its keys
Perms(S) ==
    {f \in [1..Cardinality(S) -> S] : \A x \in S : \E i \in 1..Cardinality(S) : f[i] = x}

\* dict(zip(headers, row)): a later column of the same name wins, and a row
\* shorter than the header lacks the keys of its missing cells
RowDict(headers, row) ==
    LET n == IF Len(headers) <= Len(row) THEN Len(headers) ELSE Len(row)
    IN [k \in {headers[i] : i \in 1..n} |->
           row[CHOOSE i \in 1..n : headers[i] = k /\ \A j \in 1..n : headers[j] = k => j <= i]]

\* read_csv_file: headers, num_columns, csv_lst
read_csv_file(f) ==
    [headers |-> f.header,
     num_columns |-> Len(f.header),
     csv_lst |-> [r \in 1..Len(f.rows) |-> RowDict(f.header, f.rows[r])]]

\* 'ip' in str(h).lower()
IsIpHeader(h) == SubstringOf(<<"i", "p">>, StrLower(h))

\* found_ip_header after the scan of the header
FoundIpHeader(header) == \E i \in 1..Len(header) : IsIpHeader(header[i])

\* ip_col_idx after the scan, counted from 0: the first header that has 'ip',
\* or the number of headers when none has
IpColIdx(header) ==
    IF FoundIpHeader(header)
    THEN (CHOOSE i \in 1..Len(header) :
            IsIpHeader(header[i]) /\ \A j \in 1..(i - 1) : ~IsIpHeader(header[j])) - 1
    ELSE Len(header)

RECURSIVE UniqFrom(_, _, _, _)
\* the comprehension of uniq_list from element i on, `seen` being its set
UniqFrom(list_dict, key, i, seen) ==
    IF i > Len(list_dict) THEN <<>>
    ELSE IF list_dict[i][key] \in seen
         THEN UniqFrom(list_dict, key, i + 1, seen)
         ELSE <<list_dict[i]>> \o UniqFrom(list_dict, key, i + 1, seen \cup {list_dict[i][key]})

\* a uniq_list that keeps the last element of each key, as uniq() does
uniq_list_keeps_last(list_dict, key) ==
    LET keep == {i \in 1..Len(list_dict) :
                    \A j \in (i + 1)..Len(list_dict) : list_dict[j][key] # list_dict[i][key]}
        RECURSIVE From(_)
        From(i) == IF i > Len(list_dict) THEN <<>>
                   ELSE (IF i \in keep THEN <<list_dict[i]>> ELSE <<>>) \o From(i + 1)
    IN From(1)

\* uniq_list: the first element of each value of `key`, in order
uniq_list(list_dict, key) == UniqFrom(list_dict, key, 1, {})

\* x[key] of uniq_list raises KeyError: it is evaluated for every x of the
\* list, and a dict of the list has no such key
uniq_list_raises(list_dict, key) ==
    \E i \in 1..Len(list_dict) : key \notin DOMAIN list_dict[i]

\* json.dumps of a value of the answer
JsonEscape(chars) ==
    LET RECURSIVE Esc(_)
        Esc(i) ==
            IF i > Len(chars) THEN <<>>
            ELSE (CASE chars[i] = "\"" -> <<"\\", "\"">>
                    [] chars[i] = "\\" -> <<"\\", "\\">>
                    [] chars[i] = "\n" -> <<"\\", "n">>
                    [] chars[i] = "\t" -> <<"\\", "t">>
                    [] OTHER -> <<chars[i]>>) \o Esc(i + 1)
    IN Esc(1)

JsonDumps(v) ==
    CASE v.k = "str" -> <<"\"">> \o JsonEscape(v.v) \o <<"\"">>
      [] v.k = "num" -> v.v
      [] v.k = "null" -> <<"n", "u", "l", "l">>

\* json.dumps(json_data[key]).replace('"', "").strip(), or 'N/A' on KeyError
JsonField(json_data, key) ==
    IF key \in DOMAIN json_data
    THEN Strip(RemoveChar(JsonDumps(json_data[key]), "\""))
    ELSE NA

\* the list t that ip2loc appends for one address
LocationRecord(ip, json_data) ==
    << ip,
       JsonField(json_data, "latitude"),
       JsonField(json_data, "longitude"),
       JsonField(json_data, "country_code"),
       JsonField(json_data, "country_code3"),
       JsonField(json_data, "country"),
       JsonField(json_data, "region_code"),
       JsonField(json_data, "region"),
       JsonField(json_data, "city"),
       JsonField(json_data, "postal_code"),
       JsonField(json_data, "asn"),
       JsonField(json_data, "isp") >>

\* the keys of dict d in the order a run iterates them
DictKeys(d, order) == SelectSeq(order, LAMBDA k : k \in DOMAIN d)

\* the keys of d that the merge takes: `k not in ip_col_key`, a test of k
\* being part of the string ip_col_key
MergedKeys(d, order, ip_col_key) ==
    SelectSeq(DictKeys(d, order), LAMBDA k : ~SubstringOf(k, ip_col_key))

\* hdr with the names of ks it does not hold yet appended
RECURSIVE AppendNew(_, _)
AppendNew(hdr, ks) ==
    IF ks = <<>> THEN hdr
    ELSE AppendNew(IF \E i \in 1..Len(hdr) : hdr[i] = Head(ks) THEN hdr ELSE Append(hdr, Head(ks)),
                   Tail(ks))

RECURSIVE MergeFound(_, _, _, _, _, _)
\* the loop over `found` for one resolved record: tmp grows over the dicts
\* found, and a row is appended for each of them
MergeFound(ip, found, j, tmp, order, acc) ==
    IF j > Len(found) THEN acc
    ELSE LET ks == MergedKeys(found[j], order, acc.key)
             tmp2 == tmp \o [i \in 1..Len(ks) |-> found[j][ks[i]]]
         IN MergeFound(ip, found, j + 1, tmp2, order,
                       [acc EXCEPT !.rows = Append(@, ip \o tmp2),
                                   !.new_csv_header = AppendNew(@, ks)])

RECURSIVE MergeFrom(_, _, _, _, _)
\* the loop over processed from record i on
MergeFrom(procd, i, rows, order, acc) ==
    IF i > Len(procd) THEN acc
    ELSE LET found == SelectSeq(rows, LAMBDA x : x[acc.key] = procd[i][1])
         IN MergeFrom(procd, i + 1, rows, order,
                      MergeFound(procd[i], found, 1, <<>>, order, acc))

\* the merge of main(): final_processed and new_csv_header
MergeAll(procd, rows, ncols, ip_col_key, order) ==
    IF ncols > 1
    THEN LET m == MergeFrom(procd, 1, rows, order,
                            [key |-> ip_col_key, rows |-> <<>>, new_csv_header |-> <<>>])
         IN [final_processed |-> <<FixedHeader \o m.new_csv_header>> \o m.rows,
             new_csv_header |-> m.new_csv_header]
    ELSE [final_processed |-> <<FixedHeader>> \o procd, new_csv_header |-> <<>>]

\* sorted(stats, key=itemgetter(1)) without reverse
RECURSIVE SortedAscending(_)
SortedAscending(stats) ==
    IF stats = <<>> THEN <<>>
    ELSE LET rest == SortedAscending(SubSeq(stats, 1, Len(stats) - 1))
             x == stats[Len(stats)]
             k == Cardinality({i \in 1..Len(rest) : rest[i][2] <= x[2]})
         IN SubSeq(rest, 1, k) \o <<x>> \o SubSeq(rest, k + 1, Len(rest))

\* sorted(stats, key=itemgetter(1), reverse=True): by count, largest first,
\* equal counts in the order they come in
RECURSIVE SortedByCount(_)
SortedByCount(stats) ==
    IF stats = <<>> THEN <<>>
    ELSE LET rest == SortedByCount(SubSeq(stats, 1, Len(stats) - 1))
             x == stats[Len(stats)]
             k == Cardinality({i \in 1..Len(rest) : rest[i][2] >= x[2]})
         IN SubSeq(rest, 1, k) \o <<x>> \o SubSeq(rest, k + 1, Len(rest))

\* the dict b of a pivot: how often each value occurs
Counts(values) ==
    [v \in {values[i] : i \in 1..Len(values)} |->
        Cardinality({i \in 1..Len(values) : values[i] = v})]

\* a pivot of main(): the [key, value] pairs of b in the dict's order,
\* without the keys for which `key in 'N/A'` holds, sorted
Pivot(values, order) ==
    LET b == Counts(values)
        items == [i \in 1..Len(order) |-> <<order[i], b[order[i]]>>]
    IN SortedByCount(SelectSeq(items, LAMBDA kv : ~SubstringOf(kv[1], NA)))

\* the column `col` (counted from 0) of the rows under the header
Column(final, col) == [i \in 1..(Len(final) - 1) |-> final[i + 1][col + 1]]

\* "%s-%s" % (i[3], str(i[6]).replace("/", ""))
CompositeId(row) == row[4] \o <<"-">> \o RemoveChar(row[7], "/")

\* latlonData: an assignment latlong[id] = {latitude, longitude} per row
\* whose country code passes `not in 'N/A'`
LatLonData(final) ==
    LET rows == SelectSeq(SubSeq(final, 2, Len(final)), LAMBDA i : ~SubstringOf(i[4], NA))
    IN [n \in 1..Len(rows) |->
           [id |-> CompositeId(rows[n]), latitude |-> rows[n][2], longitude |-> rows[n][3]]]

\* int(re.findall(r'\d+', label)[0]): the first run of digits of the option
FirstNumber(lbl) ==
    LET start == CHOOSE i \in 1..Len(lbl) :
                    lbl[i] \in Digit /\ \A j \in 1..(i - 1) : lbl[j] \notin Digit
        RECURSIVE Val(_, _)
        Val(i, n) == IF i <= Len(lbl) /\ lbl[i] \in Digit
                     THEN Val(i + 1, n * 10 + HexVal(lbl[i]))
                     ELSE n
    IN Val(start, 0)


(***************************************************************************)
(* The state of a run of main()                                            *)
(***************************************************************************)
VARIABLES
    args,               \* the one command-line argument
    isfile,             \* os.path.isfile(args[0])
    file,               \* the content of that file: its header and its rows
    pc,                 \* where main() is
    exit_code,          \* the argument of sys.exit, -1 while running
    raised,             \* the exception that ended the run, "" when none
    header, cols, data, \* what read_csv_file returned; data is deduplicated later
    ip_col_idx, ip_col_key, found_ip_header,
    row_i,              \* the row of data the validation loop is at
    all_ips,
    errors,             \* what logger.error reported
    requests,           \* the addresses requests.get was called for, in order
    json_error,         \* ip2loc left its loop through `except ValueError`
    ip_i,               \* the element of ip_list the loop of ip2loc is at
    ip2loc_list,        \* the list ip2loc builds
    processed, final_processed, new_csv_header,
    label, label_col,
    countryStats, latsStats, latlonData, mapData,
    csv_file            \* the rows written to the data file

inputVars == <<args, isfile, file>>
fileVars == <<header, cols, data, ip_col_idx, ip_col_key, found_ip_header>>
resolveVars == <<requests, json_error, ip_i, ip2loc_list, processed>>
mergeVars == <<final_processed, new_csv_header>>
labelVars == <<label, label_col>>
pivotVars == <<countryStats, latsStats, latlonData, mapData>>

vars == <<args, isfile, file, pc, exit_code, raised, header, cols, data,
          ip_col_idx, ip_col_key, found_ip_header, row_i, all_ips, errors,
          requests, json_error, ip_i, ip2loc_list, processed, final_processed,
          new_csv_header, label, label_col, countryStats, latsStats,
          latlonData, mapData, csv_file>>

\* the variables of main() before its first statement
Fresh ==
    /\ pc = "start"
    /\ exit_code = -1
    /\ raised = ""
    /\ header = <<>>
    /\ cols = 0
    /\ data = <<>>
    /\ ip_col_idx = 0
    /\ ip_col_key = <<>>
    /\ found_ip_header = FALSE
    /\ row_i = 1
    /\ all_ips = <<>>
    /\ errors = <<>>
    /\ requests = <<>>
    /\ json_error = FALSE
    /\ ip_i = 1
    /\ ip2loc_list = <<>>
    /\ processed = <<>>
    /\ final_processed = <<>>
    /\ new_csv_header = <<>>
    /\ label = ""
    /\ label_col = 9
    /\ countryStats = <<>>
    /\ latsStats = <<>>
    /\ latlonData = <<>>
    /\ mapData = <<>>
    /\ csv_file = <<>>

Init ==
    /\ \/ args \in Addrs /\ isfile = FALSE /\ file = NoFile
       \/ args = FileArg /\ isfile = FALSE /\ file = NoFile
       \/ args = FileArg /\ isfile = TRUE /\ file \in InputFiles
    /\ Fresh

\* a run on a file that holds one IPv6 literal with an IPv4 tail
InitV6 ==
    /\ args = FileArg
    /\ isfile = TRUE
    /\ file \in V6Files
    /\ Fresh

(***************************************************************************)
(* main(): the argument                                                    *)
(***************************************************************************)
\* socket.inet_aton accepts the argument: it is the one address of the run
SingleAddress ==
    /\ pc = "start"
    /\ inet_aton(args) = TRUE
    /\ all_ips' = Append(all_ips, args)
    /\ pc' = "assets"
    /\ UNCHANGED <<inputVars, exit_code, raised, fileVars, row_i, errors, resolveVars,
                   mergeVars, labelVars, pivotVars, csv_file>>

\* neither an address nor a file: the help is printed, sys.exit(0)
NotValidArgument ==
    /\ pc = "start"
    /\ inet_aton(args) = FALSE
    /\ ~isfile
    /\ pc' = "exit"
    /\ exit_code' = 0
    /\ UNCHANGED <<inputVars, raised, fileVars, row_i, all_ips, errors, resolveVars,
                   mergeVars, labelVars, pivotVars, csv_file>>

\* the run goes on after the error, with the index back at the first column
NoIpHeaderFallsThrough ==
    /\ pc = "start"
    /\ inet_aton(args) = FALSE
    /\ isfile
    /\ LET f == read_csv_file(file)
       IN /\ FoundIpHeader(f.headers) = FALSE
          /\ header' = f.headers
          /\ cols' = f.num_columns
          /\ data' = f.csv_lst
          /\ ip_col_key' = f.headers[1]
    /\ ip_col_idx' = 0
    /\ found_ip_header' = FALSE
    /\ errors' = Append(errors, [msg |-> "no ip header"])
    /\ pc' = "dedupe"
    /\ UNCHANGED <<inputVars, exit_code, raised, row_i, all_ips, resolveVars,
                   mergeVars, labelVars, pivotVars, csv_file>>

\* the file is read and no header has 'ip': logger.error, sys.exit(1)
NoIpHeader ==
    /\ pc = "start"
    /\ inet_aton(args) = FALSE
    /\ isfile
    /\ LET f == read_csv_file(file)
       IN /\ FoundIpHeader(f.headers) = FALSE
          /\ header' = f.headers
          /\ cols' = f.num_columns
          /\ data' = f.csv_lst
          /\ ip_col_idx' = IpColIdx(f.headers)
    /\ found_ip_header' = FALSE
    /\ errors' = Append(errors, [msg |-> "no ip header"])
    /\ pc' = "exit"
    /\ exit_code' = 1
    /\ UNCHANGED <<inputVars, raised, ip_col_key, row_i, all_ips, resolveVars,
                   mergeVars, labelVars, pivotVars, csv_file>>

\* the file is read and the first header with 'ip' names the address column
LoadFile ==
    /\ pc = "start"
    /\ inet_aton(args) = FALSE
    /\ isfile
    /\ LET f == read_csv_file(file)
       IN /\ FoundIpHeader(f.headers) = TRUE
          /\ header' = f.headers
          /\ cols' = f.num_columns
          /\ data' = f.csv_lst
          /\ ip_col_idx' = IpColIdx(f.headers)
          /\ ip_col_key' = f.headers[IpColIdx(f.headers) + 1]
    /\ found_ip_header' = TRUE
    /\ pc' = "dedupe"
    /\ UNCHANGED <<inputVars, exit_code, raised, row_i, all_ips, errors, resolveVars,
                   mergeVars, labelVars, pivotVars, csv_file>>

\* data = uniq_list(data, ip_col_key); nothing catches its KeyError
Dedupe ==
    /\ pc = "dedupe"
    /\ IF uniq_list_raises(data, ip_col_key)
       THEN /\ raised' = "KeyError"
            /\ pc' = "crash"
            /\ UNCHANGED data
       ELSE /\ data' = uniq_list(data, ip_col_key)
            /\ pc' = "validate"
            /\ UNCHANGED raised
    /\ row_i' = 1
    /\ UNCHANGED <<inputVars, exit_code, header, cols, ip_col_idx, ip_col_key,
                   found_ip_header, all_ips, errors, resolveVars, mergeVars, labelVars,
                   pivotVars, csv_file>>

\* the loop over data: a valid address joins all_ips
AcceptIp ==
    /\ pc = "validate"
    /\ row_i <= Len(data)
    /\ is_valid_ip(data[row_i][ip_col_key]) = TRUE
    /\ all_ips' = Append(all_ips, data[row_i][ip_col_key])
    /\ row_i' = row_i + 1
    /\ UNCHANGED <<inputVars, pc, exit_code, raised, fileVars, errors, resolveVars,
                   mergeVars, labelVars, pivotVars, csv_file>>

\* the loop over data: an invalid address is reported and left out
RejectIp ==
    /\ pc = "validate"
    /\ row_i <= Len(data)
    /\ is_valid_ip(data[row_i][ip_col_key]) = FALSE
    /\ errors' = Append(errors, [msg |-> "not a valid ip", ip |-> data[row_i][ip_col_key]])
    /\ row_i' = row_i + 1
    /\ UNCHANGED <<inputVars, pc, exit_code, raised, fileVars, all_ips, resolveVars,
                   mergeVars, labelVars, pivotVars, csv_file>>

\* the loop over data is over
ValidateDone ==
    /\ pc = "validate"
    /\ row_i > Len(data)
    /\ pc' = "assets"
    /\ UNCHANGED <<inputVars, exit_code, raised, fileVars, row_i, all_ips, errors,
                   resolveVars, mergeVars, labelVars, pivotVars, csv_file>>

\* ammap.js, ammap.css or worldHigh.svg is missing: logger.error, sys.exit(1)
AssetsMissing ==
    /\ pc = "assets"
    /\ errors' = Append(errors, [msg |-> "cannot generate map"])
    /\ pc' = "exit"
    /\ exit_code' = 1
    /\ UNCHANGED <<inputVars, raised, fileVars, row_i, all_ips, resolveVars,
                   mergeVars, labelVars, pivotVars, csv_file>>

\* the three files of the map are there
AssetsPresent ==
    /\ pc = "assets"
    /\ pc' = "resolve"
    /\ UNCHANGED <<inputVars, exit_code, raised, fileVars, row_i, all_ips, errors,
                   resolveVars, mergeVars, labelVars, pivotVars, csv_file>>


(***************************************************************************)
(* ip2loc(all_ips): one request per address, in order                      *)
(***************************************************************************)
\* the answer parses: its record is appended
LookupOk ==
    /\ pc = "resolve"
    /\ ip_i <= Len(all_ips)
    /\ \E json_data \in Docs :
          ip2loc_list' = Append(ip2loc_list, LocationRecord(all_ips[ip_i], json_data))
    /\ requests' = Append(requests, all_ips[ip_i])
    /\ ip_i' = ip_i + 1
    /\ UNCHANGED <<inputVars, pc, exit_code, raised, fileVars, row_i, all_ips, errors,
                   json_error, processed, mergeVars, labelVars, pivotVars, csv_file>>

\* the answer is skipped and the loop goes on with the next address
LookupParseErrorContinues ==
    /\ pc = "resolve"
    /\ ip_i <= Len(all_ips)
    /\ requests' = Append(requests, all_ips[ip_i])
    /\ json_error' = TRUE
    /\ ip_i' = ip_i + 1
    /\ UNCHANGED <<inputVars, pc, exit_code, raised, fileVars, row_i, all_ips, errors,
                   ip2loc_list, processed, mergeVars, labelVars, pivotVars, csv_file>>

\* json.loads raises ValueError: break, ip2loc returns what it has and
\* main() adds it to processed
LookupParseError ==
    /\ pc = "resolve"
    /\ ip_i <= Len(all_ips)
    /\ requests' = Append(requests, all_ips[ip_i])
    /\ json_error' = TRUE
    /\ processed' = processed \o ip2loc_list
    /\ pc' = "merge"
    /\ UNCHANGED <<inputVars, exit_code, raised, fileVars, row_i, all_ips, errors,
                   ip_i, ip2loc_list, mergeVars, labelVars, pivotVars, csv_file>>

\* requests.get raises ConnectionError or Timeout, which are no ValueError:
\* nothing catches it and the run ends with the traceback
LookupTransportError ==
    /\ pc = "resolve"
    /\ ip_i <= Len(all_ips)
    /\ requests' = Append(requests, all_ips[ip_i])
    /\ raised' = "ConnectionError"
    /\ pc' = "crash"
    /\ UNCHANGED <<inputVars, exit_code, fileVars, row_i, all_ips, errors, json_error,
                   ip_i, ip2loc_list, processed, mergeVars, labelVars, pivotVars, csv_file>>

\* the loop is over: ip2loc returns its list and main() adds it to processed
Ip2locReturn ==
    /\ pc = "resolve"
    /\ ip_i > Len(all_ips)
    /\ processed' = processed \o ip2loc_list
    /\ pc' = "merge"
    /\ UNCHANGED <<inputVars, exit_code, raised, fileVars, row_i, all_ips, errors,
                   requests, json_error, ip_i, ip2loc_list, mergeVars, labelVars,
                   pivotVars, csv_file>>

(***************************************************************************)
(* main(): merge, label, pivots, files                                     *)
(***************************************************************************)
\* the rows the merge looks an address up in
MergeRowsOfFile == read_csv_file(file).csv_lst

\* the rows the merge looks an address up in: data, deduplicated by then
MergeRows == data

\* the extra columns of the file join the resolved records; the dicts of
\* the rows hand out their keys in one order, whichever it is
Merge ==
    /\ pc = "merge"
    /\ \E order \in Perms({header[i] : i \in 1..Len(header)}) :
          LET m == MergeAll(processed, MergeRows, cols, ip_col_key, order)
          IN /\ final_processed' = m.final_processed
             /\ new_csv_header' = m.new_csv_header
    /\ pc' = "label"
    /\ UNCHANGED <<inputVars, exit_code, raised, fileVars, row_i, all_ips, errors,
                   resolveVars, labelVars, pivotVars, csv_file>>

\* row[k] of Python, k counted from 0 and from the end when negative
Item(row, k) == IF k >= 0 THEN row[k + 1] ELSE row[Len(row) + k + 1]
HasItem(row, k) == IF k >= 0 THEN k + 1 <= Len(row) ELSE -k <= Len(row)

\* the -l option: the column of the bubble labels.  csvHeader is the list
\* that is final_processed[0], so its length is that of the merged header
Label ==
    /\ pc = "label"
    /\ \E lbl \in Labels :
          IF lbl = <<>>
          THEN /\ label_col' = 9
               /\ label' = "//label:dataItem.name"
               /\ pc' = "countries"
               /\ UNCHANGED <<raised, errors>>
          ELSE IF \A i \in 1..Len(lbl) : lbl[i] \notin Digit
          THEN /\ raised' = "IndexError"
               /\ pc' = "crash"
               /\ UNCHANGED <<label, label_col, errors>>
          ELSE IF FirstNumber(lbl) > Len(final_processed[1])
          THEN /\ errors' = Append(errors, [msg |-> "label is using invalid col", label |-> lbl])
               /\ label_col' = 0
               /\ label' = "//label:dataItem.name"
               /\ pc' = "countries"
               /\ UNCHANGED raised
          ELSE /\ label' = "label:dataItem.name"
               /\ label_col' = FirstNumber(lbl) - 1
               /\ pc' = "countries"
               /\ UNCHANGED <<raised, errors>>
    /\ UNCHANGED <<inputVars, exit_code, fileVars, row_i, all_ips, resolveVars, mergeVars,
                   pivotVars, csv_file>>

\* the values of a sequence, as a set
Range(seq) == {seq[i] : i \in 1..Len(seq)}

\* pivot countries: countryStats, from column 3
PivotCountries ==
    /\ pc = "countries"
    /\ \E order \in Perms(Range(Column(final_processed, 3))) :
          countryStats' = Pivot(Column(final_processed, 3), order)
    /\ pc' = "lats"
    /\ UNCHANGED <<inputVars, exit_code, raised, fileVars, row_i, all_ips, errors,
                   resolveVars, mergeVars, labelVars, latsStats, latlonData, mapData,
                   csv_file>>

\* pivot latitudes: latsStats, from column 1, and latlonData
PivotLats ==
    /\ pc = "lats"
    /\ \E order \in Perms(Range(Column(final_processed, 1))) :
          latsStats' = Pivot(Column(final_processed, 1), order)
    /\ latlonData' = LatLonData(final_processed)
    /\ pc' = "bubbles"
    /\ UNCHANGED <<inputVars, exit_code, raised, fileVars, row_i, all_ips, errors,
                   resolveVars, mergeVars, labelVars, countryStats, mapData, csv_file>>

\* the first of final_processed, its header included, with latitude lat
FirstWithLatitude(final, lat) == SelectSeq(final, LAMBDA x : x[2] = lat)[1]

\* the bubble of one entry of latsStats
Bubble(final, stat, col) ==
    LET found == FirstWithLatitude(final, stat[1])
    IN [code |-> CompositeId(found), name |-> Item(found, col), value |-> stat[2],
        color |-> "#6c00ff"]

\* mapData: a bubble per entry of latsStats; a record without the label
\* column raises IndexError
BuildMapData ==
    /\ pc = "bubbles"
    /\ IF \A n \in 1..Len(latsStats) :
             HasItem(FirstWithLatitude(final_processed, latsStats[n][1]), label_col)
       THEN /\ mapData' = [n \in 1..Len(latsStats) |->
                              Bubble(final_processed, latsStats[n], label_col)]
            /\ pc' = "files"
            /\ UNCHANGED raised
       ELSE /\ raised' = "IndexError"
            /\ pc' = "crash"
            /\ UNCHANGED mapData
    /\ UNCHANGED <<inputVars, exit_code, fileVars, row_i, all_ips, errors, resolveVars,
                   mergeVars, labelVars, countryStats, latsStats, latlonData, csv_file>>

\* touchCSV(csv_file, final_processed); touchCSV(csv_file, countryStats, True)
WriteFiles ==
    /\ pc = "files"
    /\ csv_file' = final_processed \o countryStats
    /\ pc' = "done"
    /\ UNCHANGED <<inputVars, exit_code, raised, fileVars, row_i, all_ips, errors,
                   resolveVars, mergeVars, labelVars, pivotVars>>

Next ==
    \/ SingleAddress
    \/ NotValidArgument
    \/ NoIpHeader
    \/ LoadFile
    \/ Dedupe
    \/ AcceptIp
    \/ RejectIp
    \/ ValidateDone
    \/ AssetsMissing
    \/ AssetsPresent
    \/ LookupOk
    \/ LookupParseError
    \/ LookupTransportError
    \/ Ip2locReturn
    \/ Merge
    \/ Label
    \/ PivotCountries
    \/ PivotLats
    \/ BuildMapData
    \/ WriteFiles

Spec == Init /\ [][Next]_vars

\* the run on such a file up to the end of the validation of its addresses
NextV6 ==
    \/ LoadFile
    \/ Dedupe
    \/ AcceptIp
    \/ RejectIp
    \/ ValidateDone

SpecV6 == InitV6 /\ [][NextV6]_vars

(***************************************************************************)
(* Properties                                                              *)
(***************************************************************************)
\* the run has ended
Terminated == pc \in {"done", "exit", "crash"}

\* the merge has been done
Merged == final_processed # <<>>

\* countryStats has been computed
Pivoted == pc \in {"lats", "bubbles", "files", "done"}

\* the fixed 12 fields of a merged row, and what follows them
Fixed12(row) == SubSeq(row, 1, 12)
Extras(row) == SubSeq(row, 13, Len(row))

\* the addresses of the first fields of a list of records
AddressesOf(records) == [i \in 1..Len(records) |-> records[i][1]]

\* the elements of seq at the indices I, in order
RECURSIVE Pick(_, _, _)
Pick(seq, I, i) ==
    IF i > Len(seq) THEN <<>>
    ELSE (IF i \in I THEN <<seq[i]>> ELSE <<>>) \o Pick(seq, I, i + 1)

\* the address column of the file as it was read, row by row
FileAddresses == [r \in 1..Len(file.rows) |-> file.rows[r][ip_col_idx + 1]]

\* the candidate addresses is_valid_ip accepts (every address of an input
\* file is a candidate)
ValidAddrs == {a \in Addrs : is_valid_ip(a)}

\* the distinct valid addresses of the file, each at its first occurrence
DistinctValidAddresses ==
    Pick(FileAddresses,
         {r \in 1..Len(file.rows) :
             /\ FileAddresses[r] \in ValidAddrs
             /\ \A q \in 1..(r - 1) : FileAddresses[q] # FileAddresses[r]},
         1)

\* C1: when a lookup of a batch fails at the transport layer, the records
\* resolved before it are kept and reach the output data file: every record
\* of ip2loc's list is a row of the file once the run has ended.
C1_TransportFailureKeepsResolved ==
    (Terminated /\ raised = "ConnectionError") =>
        \A i \in 1..Len(ip2loc_list) :
            \E n \in 1..Len(csv_file) : Fixed12(csv_file[n]) = ip2loc_list[i]

\* C2: when the answer for the k-th valid address does not parse, no further
\* request is issued, ip2loc returns exactly the records of the first k-1
\* valid addresses in order, and those are the rows of the merged output and
\* of the data file.
C2_ParseErrorKeepsPrefix ==
    json_error =>
        /\ Len(requests) = Len(ip2loc_list) + 1
        /\ requests = SubSeq(all_ips, 1, Len(requests))
        /\ AddressesOf(ip2loc_list) = SubSeq(all_ips, 1, Len(requests) - 1)
        /\ processed = ip2loc_list
        /\ Merged =>
              /\ Len(final_processed) = Len(processed) + 1
              /\ \A i \in 1..Len(processed) : Fixed12(final_processed[i + 1]) = processed[i]
        /\ pc = "done" => SubSeq(csv_file, 1, Len(final_processed)) = final_processed

\* C2, its case: the second or a later answer did not parse while addresses
\* were still waiting, and the run wrote its data file
C2_Witness ==
    /\ json_error
    /\ Len(processed) >= 1
    /\ Len(all_ips) > Len(requests)
    /\ pc = "done"
    /\ Len(csv_file) >= 2

\* C3: when no lookup fails, the records of a file batch are one per
\* distinct valid address of the input, in the order of first occurrence,
\* and exactly one request was issued for each such address.
C3_OneRecordPerDistinctValidAddress ==
    (isfile /\ pc \in {"merge", "label", "countries", "lats", "bubbles", "files", "done"}
            /\ ~json_error) =>
        /\ AddressesOf(processed) = DistinctValidAddresses
        /\ requests = DistinctValidAddresses

\* C3, its case: a file of three rows whose third repeats the first, both
\* of its addresses valid, resolved without a failure
C3_Witness ==
    /\ isfile
    /\ pc = "done"
    /\ ~json_error
    /\ Len(file.rows) = 3
    /\ FileAddresses[3] = FileAddresses[1]
    /\ FileAddresses[2] # FileAddresses[1]
    /\ Len(processed) = 2

\* C4: no request is ever issued for an address is_valid_ip rejects, and in
\* a file batch every rejected address is reported.
C4_NoLookupOfRejectedAddress ==
    /\ \A i \in 1..Len(requests) : is_valid_ip(requests[i])
    /\ (isfile /\ pc \in {"assets", "resolve", "merge"}) =>
          \A r \in 1..Len(data) :
              ~is_valid_ip(data[r][ip_col_key]) =>
                  \E e \in 1..Len(errors) :
                      errors[e] = [msg |-> "not a valid ip", ip |-> data[r][ip_col_key]]

\* C5: if no header of the input file contains "ip" in any case, the run
\* ends with the configuration error and exit code 1 in its first step, and
\* no request is issued at any point.
C5_NoIpHeaderRejectsBatch ==
    (isfile /\ ~inet_aton(args)
            /\ \A c \in 1..Len(file.header) :
                  ~SubstringOf(<<"i", "p">>, StrLower(file.header[c]))) =>
        /\ requests = <<>>
        /\ pc \in {"start", "exit"}
        /\ pc = "exit" => exit_code = 1 /\ errors = <<[msg |-> "no ip header"]>>

\* C5, its case: a file with rows and no such header was rejected
C5_Witness ==
    /\ isfile
    /\ file.header = <<Col_label, Col_desc>>
    /\ Len(file.rows) >= 2
    /\ pc = "exit"
    /\ exit_code = 1


\* the rows of the file as it was read that hold address a, first to last
RowsWithAddress(a) == Pick([r \in 1..Len(file.rows) |-> r],
                           {r \in 1..Len(file.rows) : FileAddresses[r] = a}, 1)

\* the columns of the file other than the address column
ExtraColumns == (1..Len(file.header)) \ {ip_col_idx + 1}

\* the columns whose values the merge takes: those whose name is not part
\* of the name of the address column
TakenColumns == {c \in ExtraColumns : ~SubstringOf(file.header[c], ip_col_key)}

\* the values of the columns cs (a sequence) of the rows rs (a sequence), row by row
RECURSIVE ValuesOfRows(_, _)
ValuesOfRows(rs, cs) ==
    IF rs = <<>> THEN <<>>
    ELSE [i \in 1..Len(cs) |-> file.rows[Head(rs)][cs[i]]] \o ValuesOfRows(Tail(rs), cs)

\* C6, as amended: for an address that appears in several rows of the
\* input, there is one merged record, and the extra values it carries are
\* those of the first of these rows alone, one per column the merge takes:
\* uniq_list has removed the later rows before the merge.
C6_MergedRecordCarriesFirstRowOnly ==
    (Merged /\ cols > 1) =>
        \A n \in 2..Len(final_processed) :
            LET a == final_processed[n][1]
                rs == RowsWithAddress(a)
                ex == Extras(final_processed[n])
            IN Len(rs) >= 2 =>
                  /\ Len(ex) = Cardinality(TakenColumns)
                  /\ Range(ex) = {file.rows[rs[1]][c] : c \in TakenColumns}
                  /\ \A m \in 2..Len(final_processed) :
                        m # n => final_processed[m][1] # a

\* C6, its case: an address of two or more rows was resolved and merged
\* with an extra column, and the data file was written
C6_Witness ==
    /\ pc = "done"
    /\ cols > 1
    /\ \E n \in 2..Len(final_processed) :
          /\ Len(RowsWithAddress(final_processed[n][1])) >= 2
          /\ Len(Extras(final_processed[n])) >= 1

\* C6, as claimed: for an address that appears in several rows of the
\* input, the merged record carries the extra values of all of these rows,
\* concatenated in the order of the rows (the columns in one order).
C6_MergedRecordCarriesAllRows ==
    (Merged /\ cols > 1) =>
        \A n \in 2..Len(final_processed) :
            LET rs == RowsWithAddress(final_processed[n][1])
            IN Len(rs) >= 2 =>
                  \E cs \in Perms(ExtraColumns) :
                      Extras(final_processed[n]) = ValuesOfRows(rs, cs)

\* C7: after a merge of at least one record, the merged header is the fixed
\* 12 names followed by every column name of the input other than the
\* address column, each once and none left out.
C7_MergedHeaderHasEveryExtraColumn ==
    (Merged /\ isfile /\ Len(processed) >= 1) =>
        \E names \in Perms({file.header[c] : c \in ExtraColumns}) :
            final_processed[1] = FixedHeader \o names

\* C8: countryStats has exactly one pair for each country code of the
\* merged records other than "N/A", with the number of records that have
\* the code, and no other pair.
C8_CountryStatsCountsEveryCode ==
    Pivoted =>
        LET codes == Column(final_processed, 3)
        IN /\ \A i \in 1..Len(countryStats) :
                 countryStats[i][1] \in Range(codes) \ {NA}
           /\ \A code \in Range(codes) \ {NA} :
                 /\ Cardinality({i \in 1..Len(countryStats) : countryStats[i][1] = code}) = 1
                 /\ \E i \in 1..Len(countryStats) :
                       countryStats[i] =
                           <<code, Cardinality({r \in 1..Len(codes) : codes[r] = code})>>

\* C9, as amended: countryStats is sorted by count, largest first (codes of
\* equal count come in the order of the counting dict, which is none the
\* records fix).
C9_CountryStatsDescending ==
    Pivoted =>
        \A i, j \in 1..Len(countryStats) :
            i < j => countryStats[i][2] >= countryStats[j][2]

\* C9, its case: two codes of different counts
C9_Witness ==
    /\ Pivoted
    /\ Len(countryStats) >= 2
    /\ countryStats[1][2] > countryStats[2][2]

\* the row of the merged records in which a country code is first seen
FirstSeen(code) ==
    CHOOSE r \in 1..(Len(final_processed) - 1) :
        /\ final_processed[r + 1][4] = code
        /\ \A q \in 1..(r - 1) : final_processed[q + 1][4] # code

\* C9, as claimed: countryStats is sorted by count, largest first, and two
\* codes of equal count are in the order in which the merged records first
\* show them.
C9_TiesInFirstSeenOrder ==
    Pivoted =>
        \A i, j \in 1..Len(countryStats) :
            i < j =>
                /\ countryStats[i][2] >= countryStats[j][2]
                /\ countryStats[i][2] = countryStats[j][2] =>
                      FirstSeen(countryStats[i][1]) < FirstSeen(countryStats[j][1])

\* "{country_code}-{city}", the slashes of the city removed
CountryCityId(row) == row[4] \o <<"-">> \o RemoveChar(row[9], "/")

\* C10: every key of the coordinate table and every id of a bubble is the
\* country code and the city (slashes removed) of its record, and the table
\* has such an entry, with the record's latitude and longitude, for every
\* merged record whose country code is not "N/A".
C10_IdsAreCountryAndCity ==
    pc \in {"files", "done"} =>
        LET rows == SubSeq(final_processed, 2, Len(final_processed))
        IN /\ \A e \in 1..Len(latlonData) :
                 \E r \in 1..Len(rows) : latlonData[e].id = CountryCityId(rows[r])
           /\ \A b \in 1..Len(mapData) :
                 \E r \in 1..Len(rows) :
                     /\ rows[r][2] = latsStats[b][1]
                     /\ mapData[b].code = CountryCityId(rows[r])
           /\ \A r \in 1..Len(rows) :
                 rows[r][4] # NA =>
                     \E e \in 1..Len(latlonData) :
                         latlonData[e] = [id |-> CountryCityId(rows[r]),
                                          latitude |-> rows[r][2],
                                          longitude |-> rows[r][3]]

\* the records of a list that lack the key, in order
Keyless(list_dict, key) == SelectSeq(list_dict, LAMBDA x : key \notin DOMAIN x)

\* C11: the deduplication of a file's records ends without raising, and
\* every record that lacks the address key is in its result, these records
\* in the order they have in the file.
C11_DedupeKeepsKeylessRecords ==
    (isfile /\ found_ip_header /\ pc # "dedupe") =>
        /\ raised # "KeyError"
        /\ Keyless(data, ip_col_key) = Keyless(read_csv_file(file).csv_lst, ip_col_key)
\* the first merged record, the header not counted, with latitude lat
FirstRecordWithLatitude(lat) ==
    SelectSeq(SubSeq(final_processed, 2, Len(final_processed)), LAMBDA x : x[2] = lat)[1]

\* C12: whatever column the -l option asks for, the bubbles are built
\* without an IndexError; when the column is within the merged header the
\* name of every bubble is the field of that column in the first merged
\* record with the bubble's latitude, which the record has.
C12_LabelColumnNeverOutOfRange ==
    /\ raised # "IndexError"
    /\ (pc \in {"files", "done"} /\ label = "label:dataItem.name") =>
          /\ Len(mapData) = Len(latsStats)
          /\ \A b \in 1..Len(mapData) :
                LET rec == FirstRecordWithLatitude(latsStats[b][1])
                IN /\ label_col + 1 <= Len(rec)
                   /\ mapData[b].name = rec[label_col + 1]
\* the string has "::" at two places that do not overlap
TwoWildcards(a) ==
    \E i, j \in 1..(Len(a) - 1) :
        /\ i + 2 <= j
        /\ a[i] = ":" /\ a[i + 1] = ":"
        /\ a[j] = ":" /\ a[j + 1] = ":"

\* C13: is_valid_ip accepts every IPv6 literal with an IPv4 tail whose
\* octets are in 0..255 without leading zeros and whose groups are well
\* formed with at most one "::", and rejects every string with two "::":
\* once the one address of the file has been validated, it is in all_ips in
\* the first case and not in the second.
C13_EmbeddedV4Accepted ==
    (pc = "assets" /\ file \in V6Files) =>
        LET a == file.rows[1][1]
        IN /\ a \in {p \o tl : p \in V6Prefixes, tl \in V6Tails} => all_ips = <<a>>
           /\ TwoWildcards(a) => all_ips = <<>>
\* the assignments of latlonData to the key id, and the one that stays in
\* the table: the last
AssignmentsTo(id) == {e \in 1..Len(latlonData) : latlonData[e].id = id}
TableEntry(id) ==
    latlonData[CHOOSE e \in AssignmentsTo(id) : \A f \in AssignmentsTo(id) : f <= e]

\* C14: the id of every bubble is a key of the coordinate table, and the
\* latitude the table has under that key is the latitude the bubble counts.
C14_BubbleIdsInCoordinateTable ==
    pc \in {"files", "done"} =>
        \A b \in 1..Len(mapData) :
            /\ AssignmentsTo(mapData[b].code) # {}
            /\ TableEntry(mapData[b].code).latitude = latsStats[b][1]

====
